---- MODULE Spec2Model ----
(***************************************************************************)
(* A model of pyzwaver/command.py: the field decoders, ParseCommand,       *)
(* AssembleCommand, the action table built by PatchUpActions, and          *)
(* GetValue.                                                               *)
(*                                                                         *)
(* A buffer m is a sequence of bytes; Python index i is position i + 1.   *)
(* Python values are records, one field name per Python type, so that two  *)
(* values of different types are unequal:                                  *)
(*   [int |-> n]          an int                                           *)
(*   [num |-> n, den |-> d]  the float n / d (d a power of ten)            *)
(*   [none |-> TRUE]      None                                             *)
(*   [list |-> s]         a list, s a sequence of values                   *)
(*   [bytes |-> s]        a bytes object, s a sequence of byte numbers     *)
(*   [str |-> s]          a str, s the sequence of its code points         *)
(*   [bits |-> S]         a set of ints                                    *)
(*   [name |-> x]         one of the module's string constants             *)
(* A call either returns or raises: Ret(index, value) and Raise(exc).      *)
(***************************************************************************)
EXTENDS Integers, Sequences, FiniteSets, TLC

\* ------------------------------------------------------------ bounds
\* The longest frame body drawn byte by byte.
MaxBody == 3
\* The longest byte span handed to _ExtractBitVector directly.
MaxSpan == 2
\* How many GetValue calls may be handed a list of the action table itself.
MaxTableCalls == 1

\* ------------------------------------------------------------ values
I(n) == [int |-> n]
Fl(n, d) == [num |-> n, den |-> d]
None == [none |-> TRUE]
L(s) == [list |-> s]
Bs(s) == [bytes |-> s]
Str(s) == [str |-> s]
Bits(S) == [bits |-> S]
Nm(x) == [name |-> x]
Ints(s) == L([i \in 1..Len(s) |-> I(s[i])])

Ret(i, v) == [st |-> "ret", index |-> i, value |-> v]
Raise(e) == [st |-> "raise", index |-> 0, value |-> [exc |-> e]]

IsNone(v) == v = None

Min(a, b) == IF a < b THEN a ELSE b
Pow(b, e) == IF e = 0 THEN 1 ELSE IF e = 1 THEN b
             ELSE IF e = 2 THEN b * b
             ELSE IF e = 3 THEN b * b * b
             ELSE IF e = 4 THEN b * b * b * b
             ELSE IF e = 5 THEN b * b * b * b * b
             ELSE IF e = 6 THEN b * b * b * b * b * b
             ELSE b * b * b * b * b * b * b

\* m[i]: defined for 0 <= i < len(m); any other read raises IndexError.
InRange(m, i) == i >= 0 /\ i < Len(m)
At(m, i) == m[i + 1]
\* m[a:b] for 0 <= a: clipped to the buffer, empty when b <= a.
Slice(m, a, b) == SubSeq(m, a + 1, Min(b, Len(m)))

\* ------------------------------------------------------- unit tables
UNIT_LEVEL == "level"
UNIT_NONE == ""
NoUnit == "@None@"

METER_TYPES ==
  << <<"@invalid@", <<NoUnit, NoUnit, NoUnit, NoUnit, NoUnit, NoUnit, NoUnit, NoUnit>> >>,
     <<"Electric", <<"kWh", "kVAh", "W", "Pulses", "V", "A", "Power-Factor", NoUnit>> >>,
     <<"Gas", <<"m^3", "ft^3", NoUnit, "Pulses", NoUnit, NoUnit, NoUnit, NoUnit>> >>,
     <<"Water", <<"m^3", "ft^3", NoUnit, "Pulses", NoUnit, NoUnit, NoUnit, NoUnit>> >> >>

SENSOR_TYPES ==
  << <<"@invalid@", <<NoUnit, NoUnit, NoUnit, NoUnit>> >>,
     <<"Temperature", <<"C", "F", NoUnit, NoUnit>> >>,
     <<"General", <<"%", NoUnit, NoUnit, NoUnit>> >>,
     <<"Luminance", <<"%", "lux", NoUnit, NoUnit>> >>,
     <<"Power", <<"W", "BTU/h", NoUnit, NoUnit>> >>,
     <<"Relative Humidity", <<"%", NoUnit, NoUnit, NoUnit>> >>,
     <<"Velocity", <<"m/s", "mph", NoUnit, NoUnit>> >>,
     <<"Direction", <<"", "", NoUnit, NoUnit>> >>,
     <<"Atmospheric Pressure", <<"kPa", "inHg", NoUnit, NoUnit>> >>,
     <<"Barometric Pressure", <<"kPa", "inHg", NoUnit, NoUnit>> >>,
     <<"Solar Radiation", <<"W/m2", NoUnit, NoUnit, NoUnit>> >>,
     <<"Dew Point", <<"C", "F", NoUnit, NoUnit>> >>,
     <<"Rain Rate", <<"mm/h", "in/h", NoUnit, NoUnit>> >>,
     <<"Tide Level", <<"m", "ft", NoUnit, NoUnit>> >>,
     <<"Weight", <<"kg", "lb", NoUnit, NoUnit>> >>,
     <<"Voltage", <<"kg", "lb", NoUnit, NoUnit>> >>,
     <<"Current", <<"A", "mA", NoUnit, NoUnit>> >>,
     <<"CO2 Level", <<"ppm", NoUnit, NoUnit, NoUnit>> >>,
     <<"Air Flow", <<"m3/h", "cfm", NoUnit, NoUnit>> >>,
     <<"Tank Capacity", <<"l", "cbm", "gal", NoUnit>> >>,
     <<"Distance", <<"m", "cm", "ft", NoUnit>> >>,
     <<"Angle Position", <<"%", "deg N", "deg S", NoUnit>> >>,
     <<"Rotation", <<"rpm", "Hz", NoUnit, NoUnit>> >>,
     <<"Water Temperature", <<"C", "F", NoUnit, NoUnit>> >>,
     <<"Soil Temperature", <<"C", "F", NoUnit, NoUnit>> >>,
     <<"Seismic Intensity", <<"mercalli", "EU macroseismic", "liedu", "shindo">> >>,
     <<"Seismic Magnitude", <<"local", "moment", "surface wave", "body wave">> >>,
     <<"Utraviolet", <<"", "", NoUnit, NoUnit>> >>,
     <<"Electrical Resistivity", <<"ohm", NoUnit, NoUnit, NoUnit>> >>,
     <<"Electrical Conductivity", <<"siemens/m", NoUnit, NoUnit, NoUnit>> >>,
     <<"Loudness", <<"db", "dbA", NoUnit, NoUnit>> >>,
     <<"Moisture", <<"%", "content", "k ohms", "water activity">> >> >>

\* ------------------------------------------------------ large numbers
\* Python's ints have no width.  A natural number is kept as its base-256
\* digits, most significant first and without leading zeros, while it is
\* computed; as a value it is [int |-> n] below 2^24 and otherwise
\* [int |-> the low three digits, more |-> the digits above them].
RECURSIVE Norm(_)
Norm(d) == IF d # <<>> /\ d[1] = 0 THEN Norm(Tail(d)) ELSE d

Front(d) == SubSeq(d, 1, Len(d) - 1)

RECURSIVE NatInc(_)
NatInc(d) ==
  IF d = <<>> THEN <<1>>
  ELSE IF d[Len(d)] < 255 THEN Front(d) \o <<d[Len(d)] + 1>>
  ELSE NatInc(Front(d)) \o <<0>>

\* d - 1, for d > 0
RECURSIVE NatDec(_)
NatDec(d) ==
  IF d[Len(d)] > 0 THEN Norm(Front(d) \o <<d[Len(d)] - 1>>)
  ELSE Norm(NatDec(Front(d)) \o <<255>>)

\* d * 256 + x, for 0 <= x <= 256
NatShiftAdd(d, x) ==
  IF x < 256 THEN Norm(d \o <<x>>) ELSE Norm(NatInc(d) \o <<0>>)

RECURSIVE Small(_)
Small(d) == IF d = <<>> THEN 0 ELSE Small(Front(d)) * 256 + d[Len(d)]

IntD(digits) ==
  LET Of(d) ==
        IF Len(d) <= 3 THEN [int |-> Small(d)]
        ELSE [int |-> Small(SubSeq(d, Len(d) - 2, Len(d))), more |-> SubSeq(d, 1, Len(d) - 3)]
  IN Of(Norm(digits))

\* the float (-1)^neg * digits / den
FlD(neg, digits, den) ==
  LET Low(d) == IF Len(d) <= 3 THEN d ELSE SubSeq(d, Len(d) - 2, Len(d))
      Of(d, low) ==
        IF Len(d) <= 3 THEN [num |-> IF neg THEN -low ELSE low, den |-> den]
        ELSE IF neg
        THEN [num |-> low, more |-> SubSeq(d, 1, Len(d) - 3), neg |-> TRUE, den |-> den]
        ELSE [num |-> low, more |-> SubSeq(d, 1, Len(d) - 3), den |-> den]
      Digits(d) == Of(d, Small(Low(d)))
  IN Digits(Norm(digits))

\* ---------------------------------------------------- signed values
\* The loop of _GetSignedValue after i iterations: the digits of value, or
\* of -value when negative (value += ~b takes b + 1 off value).
RECURSIVE SignedLoop(_, _, _, _)
SignedLoop(m, index, negative, i) ==
  IF i = 0 THEN <<>>
  ELSE NatShiftAdd(SignedLoop(m, index, negative, i - 1),
                   IF negative THEN At(m, index + i - 1) + 1 ELSE At(m, index + i - 1))

\* value += 1; return -float(value), with value = -x: the float x - 1
NegatedPlusOne(x) == IF x = <<>> THEN FlD(TRUE, <<1>>, 1) ELSE FlD(FALSE, NatDec(x), 1)

_GetSignedValue(m, index, size) ==
  IF ~InRange(m, index) \/ (size > 0 /\ ~InRange(m, index + size - 1))
  THEN Raise("IndexError")
  ELSE LET Signed(negative, value) ==
             IF negative THEN Ret(0, NegatedPlusOne(value)) ELSE Ret(0, FlD(FALSE, value, 1))
           Loop(negative) == Signed(negative, SignedLoop(m, index, negative, size))
       IN Loop(At(m, index) >= 128)

_GetReading(m, index, units_extra) ==
  IF ~InRange(m, index) THEN Raise("IndexError")
  ELSE LET size == At(m, index) % 8
           units == ((At(m, index) \div 8) % 4) + units_extra
           precision == (At(m, index) \div 32) % 8
           Reading(sv) ==
             IF sv.st = "raise" THEN sv
             ELSE Ret(index + 1 + size,
                      L(<<I(units), [sv.value EXCEPT !.den = Pow(10, precision)]>>))
       IN Reading(_GetSignedValue(m, index + 1, size))

_GetTimeDelta(m, index) ==
  Ret(index + 2, I(At(m, index) * 256 + At(m, index + 1)))

_ExtractValues(m, index, units_extra) ==
  IF index >= Len(m) THEN Ret(index, L(<<None, None, None>>))
  ELSE LET Previous(unit, val1, dt, r2) ==
             IF r2.st = "raise" THEN r2
             ELSE Ret(r2.index, L(<<unit, val1, dt, r2.value.list[2]>>))
           AfterDelta(unit, val1, dt, i2) ==
             IF i2 < Len(m)
             THEN Previous(unit, val1, dt, _GetReading(m, i2, units_extra))
             ELSE Ret(i2, L(<<unit, val1, dt, None>>))
           AfterFirst(r1) ==
             IF r1.st = "raise" THEN r1
             ELSE IF r1.index + 1 < Len(m)
             THEN AfterDelta(r1.value.list[1], r1.value.list[2],
                             _GetTimeDelta(m, r1.index).value, r1.index + 2)
             ELSE AfterDelta(r1.value.list[1], r1.value.list[2], None, r1.index)
       IN AfterFirst(_GetReading(m, index, units_extra))

_ParseMeter(m, index) ==
  IF ~InRange(m, index) THEN Raise("IndexError")
  ELSE LET units_extra == (At(m, index) \div 128) * 4
           meter_type == At(m, index) % 32
           Report(r) ==
             IF r.st = "raise" THEN r
             ELSE Ret(r.index, L(<<I(meter_type)>> \o r.value.list))
       IN Report(_ExtractValues(m, index + 1, units_extra))

\* ------------------------------------------------------- the parsers
_ParseByte(m, index) ==
  IF Len(m) <= index THEN Ret(index, None)
  ELSE Ret(index + 1, I(At(m, index)))

_ParseWord(m, index) ==
  IF Len(m) <= index + 1 THEN Ret(index, None)
  ELSE Ret(index + 2, I(At(m, index) * 256 + At(m, index + 1)))

\* bytes.decode: "ascii" refuses a byte above 127, "latin1" maps each byte
\* to its code point, "utf-16-be" takes two bytes per unit, refuses an odd
\* length and a surrogate unit that is not part of a pair.
RECURSIVE Utf16Units(_)
Utf16Units(b) ==
  IF Len(b) < 2 THEN <<>>
  ELSE <<b[1] * 256 + b[2]>> \o Utf16Units(SubSeq(b, 3, Len(b)))

RECURSIVE Utf16Points(_)
Utf16Points(u) ==
  IF u = <<>> THEN <<>>
  ELSE IF u[1] >= 55296 /\ u[1] <= 56319 /\ Len(u) >= 2 /\ u[2] >= 56320 /\ u[2] <= 57343
       THEN <<65536 + (u[1] - 55296) * 1024 + (u[2] - 56320)>>
            \o Utf16Points(SubSeq(u, 3, Len(u)))
       ELSE <<u[1]>> \o Utf16Points(SubSeq(u, 2, Len(u)))

Utf16Ok(u) ==
  \A i \in 1..Len(u) :
    /\ (u[i] >= 55296 /\ u[i] <= 56319) => (i < Len(u) /\ u[i + 1] >= 56320 /\ u[i + 1] <= 57343)
    /\ (u[i] >= 56320 /\ u[i] <= 57343) => (i > 1 /\ u[i - 1] >= 55296 /\ u[i - 1] <= 56319)

Decode(b, encoding) ==
  IF encoding = 0
  THEN IF \E i \in 1..Len(b) : b[i] > 127 THEN Raise("UnicodeDecodeError") ELSE Ret(0, Str(b))
  ELSE IF encoding = 1 THEN Ret(0, Str(b))
  ELSE IF Len(b) % 2 = 1 \/ ~Utf16Ok(Utf16Units(b)) THEN Raise("UnicodeDecodeError")
       ELSE Ret(0, Str(Utf16Points(Utf16Units(b))))

_ParseName(m, index) ==
  IF ~(Len(m) > index) THEN Raise("AssertionError")
  ELSE LET encoding == At(m, index) % 4
           b == Slice(m, index + 1, Len(m))
       IN IF encoding > 2 THEN Raise("IndexError")
          ELSE LET Name(d) == IF d.st = "raise" THEN d ELSE Ret(Len(m), d.value)
               IN Name(Decode(b, encoding))

\* m[index + 1, size] subscripts a list with a tuple: a TypeError whenever
\* the size byte could be read.
_ParseStringWithLength(m, index) ==
  IF ~InRange(m, index) THEN Raise("IndexError") ELSE Raise("TypeError")

_ParseStringWithLengthAndEncoding(m, index) ==
  IF ~InRange(m, index) THEN Raise("IndexError")
  ELSE LET encoding == At(m, index) \div 32
           size == At(m, index) % 32
       IN Ret(1 + size, L(<<I(encoding), Bs(Slice(m, index + 1, index + size))>>))

_ParseListRest(m, index) ==
  LET size == Len(m) - index
  IN Ret(index + size, Ints(Slice(m, index, index + size)))

_ExtractBitVector(data, offset) ==
  Bits({j + (i - 1) * 8 + offset : <<i, j>> \in
          {<<i, j>> \in (1..Len(data)) \X (0..7) : (data[i] \div Pow(2, j)) % 2 = 1}})

_ParseBitVector(m, index) ==
  IF ~InRange(m, index) THEN Raise("IndexError")
  ELSE LET size == At(m, index)
       IN Ret(index + 1 + size, _ExtractBitVector(Slice(m, index + 1, index + 1 + size), 0))

_ParseBitVectorRest(m, index) ==
  LET size == Len(m) - index
  IN Ret(index + size, _ExtractBitVector(Slice(m, index, Len(m)), 0))

_ParseNonce(m, index) ==
  LET size == 8
  IN IF Len(m) < index + size THEN Ret(index, None)
     ELSE Ret(index + size, Ints(Slice(m, index, index + size)))

_ParseDataRest(m, index) ==
  LET size == Len(m) - index
  IN Ret(index + size, Ints(Slice(m, index, index + size)))

Reverse(s) == [i \in 1..Len(s) |-> s[Len(s) + 1 - i]]

\* x += i << shift, shift = 0, 8, ...: the bytes are the digits, lowest first
_GetIntLittleEndian(m) == IntD(Reverse(m))

\* x <<= 8; x += i: the bytes are the digits, highest first
_GetIntBigEndian(m) == IntD(m)

_ParseRestLittleEndianInt(m, index) ==
  LET size == Len(m) - index
  IN Ret(index + size, _GetIntLittleEndian(Slice(m, index, index + size)))

_ParseSensor(m, index) ==
  IF Len(m) < index + 2 THEN Ret(index, None)
  ELSE LET c == At(m, index)
           precision == (c \div 32) % 8
           scale == (c \div 8) % 4
           size == c % 8
       IN IF Len(m) < index + 1 + size THEN Ret(index, None)
          ELSE LET Reading(sv) ==
                     IF sv.st = "raise" THEN sv
                     ELSE Ret(index + 1 + size,
                              L(<<I(scale), [sv.value EXCEPT !.den = Pow(10, precision)]>>))
               IN Reading(_GetSignedValue(m, index + 1, size))

_ParseValue(m, index) ==
  IF ~InRange(m, index) THEN Raise("IndexError")
  ELSE LET size == At(m, index) % 8
           start == index + 1
       IN Ret(index + 1 + size,
              L(<<I(size), _GetIntBigEndian(Slice(m, start, start + size))>>))

_ParseDate(m, index) ==
  IF Len(m) < index + 7 THEN Ret(Len(m), None)
  ELSE Ret(index + 7,
           L(<<I(At(m, index) * 256 + At(m, index + 1)), I(At(m, index + 2)),
               I(At(m, index + 3)), I(At(m, index + 4)), I(At(m, index + 5)),
               I(At(m, index + 6))>>))

ParseTags == {"A", "F", "B", "C", "N", "L", "R", "W", "V", "M", "O", "D", "T", "U", "X"}

\* _PARSE_ACTIONS[t](m, index); a tag that is no key of the dict is a KeyError.
_PARSE_ACTIONS(t, m, index) ==
  CASE t = "A" -> _ParseStringWithLength(m, index)
    [] t = "F" -> _ParseStringWithLengthAndEncoding(m, index)
    [] t = "B" -> _ParseByte(m, index)
    [] t = "C" -> _ParseDate(m, index)
    [] t = "N" -> _ParseName(m, index)
    [] t = "L" -> _ParseListRest(m, index)
    [] t = "R" -> _ParseRestLittleEndianInt(m, index)
    [] t = "W" -> _ParseWord(m, index)
    [] t = "V" -> _ParseValue(m, index)
    [] t = "M" -> _ParseMeter(m, index)
    [] t = "O" -> _ParseNonce(m, index)
    [] t = "D" -> _ParseDataRest(m, index)
    [] t = "T" -> _ParseBitVector(m, index)
    [] t = "U" -> _ParseBitVectorRest(m, index)
    [] t = "X" -> _ParseSensor(m, index)
    [] OTHER -> Raise("KeyError")

\* --------------------------------------------------- the schema table
\* zwave.SUBCMD_TO_PARSE_TABLE and the numbers of zwave.py's class and
\* command constants.  A row is <<class name, command name, class byte,
\* command byte, the first character of each field descriptor>>.  The table
\* holds one command per field tag the codec knows.
SchemaRows ==
  << <<"Basic", "Basic_Set", 32, 1, <<"B">> >>,
     <<"Basic", "Basic_Get", 32, 2, <<>> >>,
     <<"Basic", "Basic_Report", 32, 3, <<"B">> >>,
     <<"SwitchMultilevel", "SwitchMultilevel_Set", 38, 1, <<"B", "Y">> >>,
     <<"SensorMultilevel", "SensorMultilevel_SupportedReport", 49, 2, <<"U">> >>,
     <<"SensorMultilevel", "SensorMultilevel_Report", 49, 5, <<"B", "X">> >>,
     <<"Meter", "Meter_Report", 50, 2, <<"M">> >>,
     <<"UserCode", "UserCode_Report", 99, 3, <<"B", "B", "A">> >>,
     <<"Configuration", "Configuration_Set", 112, 4, <<"B", "V">> >>,
     <<"Alarm", "Alarm_SupportedReport", 113, 8, <<"T">> >>,
     <<"ManufacturerSpecific", "ManufacturerSpecific_Report", 114, 5, <<"W", "W", "W">> >>,
     <<"NodeNaming", "NodeNaming_Set", 119, 1, <<"N">> >>,
     <<"NodeNaming", "NodeNaming_Report", 119, 3, <<"N">> >>,
     <<"Firmware", "Firmware_MetadataReport", 122, 2, <<"B", "F">> >>,
     <<"WakeUp", "WakeUp_IntervalCapabilitiesReport", 132, 10, <<"R">> >>,
     <<"WakeUp", "WakeUp_Notification", 132, 7, <<>> >>,
     <<"Association", "Association_Set", 133, 1, <<"B", "L">> >>,
     <<"TimeParameters", "TimeParameters_Report", 139, 3, <<"C">> >>,
     <<"Security", "Security_NetworkKeySet", 152, 6, <<"K">> >>,
     <<"Security", "Security_NonceReport", 152, 128, <<"O">> >>,
     <<"Security", "Security_MessageEncap", 152, 129, <<"O", "D">> >>,
     <<"Security", "Security_SchemeInherit", 152, 8, <<"S">> >> >>

RowsOf(key) == {r \in 1..Len(SchemaRows) : SchemaRows[r][3] * 256 + SchemaRows[r][4] = key}

\* The table's answer for a key: the schema, or None for a key it has not.
SUBCMD_TO_PARSE_TABLE(key) ==
  IF RowsOf(key) = {} THEN None
  ELSE L(SchemaRows[CHOOSE r \in RowsOf(key) : TRUE][5])

\* The (class, command) pair of constants a frame's header stands for.
KeyOf(cls, cmd) ==
  IF RowsOf(cls * 256 + cmd) = {} THEN <<"?", "?">>
  ELSE LET r == CHOOSE r \in RowsOf(cls * 256 + cmd) : TRUE
       IN <<SchemaRows[r][1], SchemaRows[r][2]>>

\* ------------------------------------------------------ ParseCommand
_GetParameterDescriptors(m) ==
  IF Len(m) < 2 THEN None
  ELSE SUBCMD_TO_PARSE_TABLE(At(m, 0) * 256 + At(m, 1))

\* The walk of ParseCommand from schema entry i on, the cursor at index and
\* the values decoded so far in out.  trace lists the cursor at the start
\* and after each decoded entry; calls counts the decoders invoked.
RECURSIVE ParseLoop(_, _, _, _, _, _)
ParseLoop(m, table, i, index, out, trace) ==
  IF i > Len(table)
  THEN [st |-> "ret", value |-> L(out), trace |-> trace, calls |-> i - 1]
  ELSE LET Field(r) ==
             IF r.st = "raise"
             THEN [st |-> "raise", value |-> r.value, trace |-> trace, calls |-> i]
             ELSE IF IsNone(r.value)
             THEN [st |-> "ret", value |-> None, trace |-> trace, calls |-> i]
             ELSE ParseLoop(m, table, i + 1, r.index, Append(out, r.value),
                            Append(trace, r.index))
       IN Field(_PARSE_ACTIONS(table[i], m, index))

ParseCommand(m) ==
  LET Fields(table) ==
        IF IsNone(table)
        THEN [st |-> "ret", value |-> L(<<>>), trace |-> <<>>, calls |-> 0]
        ELSE ParseLoop(m, table.list, 1, 2, <<>>, <<2>>)
  IN Fields(_GetParameterDescriptors(m))

\* --------------------------------------------------- AssembleCommand
Unwrap(v) == [i \in 1..Len(v.list) |-> v.list[i].int]

\* 0xff & (value >> shift), shift = 8 * k
ByteOf(value, k) == (value \div Pow(256, k)) % 256

_MakeValue(conf, value) ==
  LET size == conf % 8
  IN IF size \notin {1, 2, 4} THEN Raise("AssertionError")
     ELSE Ret(0, [data |-> <<conf>> \o [j \in 1..size |-> ByteOf(value, size - j)]])

_MakeDate(date) ==
  <<date[1] \div 256, date[1] % 256, date[2], date[3], date[4], date[5], date[6]>>

\* One pass of AssembleCommand's loop body: the bytes the entry adds.
AssembleField(t, v) ==
  CASE t = "B" -> Ret(0, [data |-> <<v.int>>])
    [] t = "Y" -> IF ~IsNone(v) THEN Ret(0, [data |-> <<v.int>>]) ELSE Ret(0, [data |-> <<>>])
    [] t = "N" -> Ret(0, [data |-> <<1>>])
    [] t = "K" -> IF Len(v.list) # 16 THEN Raise("AssertionError")
                  ELSE Ret(0, [data |-> Unwrap(v)])
    [] t = "D" -> Ret(0, [data |-> Unwrap(v)])
    [] t = "S" -> Raise("AssertionError")
    [] t = "L" -> Ret(0, [data |-> Unwrap(v)])
    [] t = "C" -> Ret(0, [data |-> _MakeDate(Unwrap(v))])
    [] t = "O" -> Ret(0, [data |-> Unwrap(v)])
    [] t = "V" -> _MakeValue(v.list[1].int, v.list[2].int)
    [] OTHER -> Raise("AssertionError")

RECURSIVE AssembleLoop(_, _, _, _)
AssembleLoop(table, args, i, data) ==
  IF i > Len(table) THEN Ret(0, [data |-> data])
  ELSE IF i > Len(args) THEN Raise("IndexError")
  ELSE LET Field(r) ==
             IF r.st = "raise" THEN r
             ELSE AssembleLoop(table, args, i + 1, data \o r.value.data)
       IN Field(AssembleField(table[i], args[i]))

\* raw_cmd = [cls, cmd] + args
AssembleCommand(cls, cmd, args) ==
  LET Fields(table) ==
        IF IsNone(table) THEN Raise("AssertionError")
        ELSE AssembleLoop(table.list, args, 1, <<cls, cmd>>)
  IN Fields(SUBCMD_TO_PARSE_TABLE(cls * 256 + cmd))

\* ------------------------------------------------- the action tables
VALUE_TYPE_LIST == "ItemList"
VALUE_TYPE_SCALAR == "ItemScalar"
VALUE_TYPE_CONST == "ItemConst"
VALUE_TYPE_MAP_LIST == "ItemMapList"
VALUE_TYPE_MAP_SCALAR == "ItemMapScalar"
VALUE_TYPE_SENSOR_NORMAL == "ItemSensorNormal"
VALUE_TYPE_SENSOR_VALUE == "ItemSensorValue"
VALUE_TYPE_METER_NORMAL == "ItemMeterNormal"
ACTION_STORE_VALUE == "StoreValue"
ACTION_STORE_EVENT == "StoreEvent"
ACTION_STORE_SENSOR == "StoreSensor"
ACTION_STORE_METER == "StoreMeter"
ACTION_CHANGE_STATE == "CHANGE_STATE"
NODE_STATE_INTERVIEWED == "3_Interviewed"

\* GetValueName(k): the command's name in zwave.SUBCMD_TO_STRING with a
\* trailing "_Report" or "Report" removed; kept as the name of the key.
GetValueName(k) == [valuename |-> k]

_STORE_VALUE_SCALAR_ACTIONS ==
  << <<"Association", "Association_GroupingsReport">>,
     <<"SwitchAll", "SwitchAll_Report">>,
     <<"Protection", "Protection_Report">>,
     <<"NodeNaming", "NodeNaming_Report">>,
     <<"NodeNaming", "NodeNaming_LocationReport">>,
     <<"TimeParameters", "TimeParameters_Report">>,
     <<"Lock", "Lock_Report">>,
     <<"Indicator", "Indicator_Report">>,
     <<"SwitchMultilevel", "SwitchMultilevel_StopLevelChange">>,
     <<"WakeUp", "WakeUp_IntervalCapabilitiesReport">>,
     <<"SwitchMultilevel", "SwitchMultilevel_SupportedReport">>,
     <<"DoorLock", "DoorLock_Report">>,
     <<"DoorLockLogging", "DoorLockLogging_SupportedReport">>,
     <<"UserCode", "UserCode_NumberReport">>,
     <<"Basic", "Basic_Set">>,
     <<"SceneActivation", "SceneActivation_Set">>,
     <<"SensorMultilevel", "SensorMultilevel_SupportedReport">>,
     <<"Clock", "Clock_Report">> >>

\* A list-store table with a key of the scalar-store table in it.
ListActionsWithScalarKey ==
  << <<"Alarm", "Alarm_SupportedReport">>,
     <<"Powerlevel", "Powerlevel_Report">>,
     <<"SensorAlarm", "SensorAlarm_SupportedReport">>,
     <<"ThermostatMode", "ThermostatMode_Report">>,
     <<"ManufacturerSpecific", "ManufacturerSpecific_DeviceSpecificReport">>,
     <<"ApplicationStatus", "ApplicationStatus_Busy">>,
     <<"MultiInstance", "MultiInstance_ChannelEndPointReport">>,
     <<"SwitchMultilevel", "SwitchMultilevel_StartLevelChange">>,
     <<"DoorLock", "DoorLock_ConfigurationReport">>,
     <<"ZwavePlusInfo", "ZwavePlusInfo_Report">>,
     <<"Basic", "Basic_Set">>,
     <<"ManufacturerSpecific", "ManufacturerSpecific_Report">>,
     <<"Meter", "Meter_SupportedReport">>,
     <<"ColorSwitch", "ColorSwitch_SupportedReport">>,
     <<"Firmware", "Firmware_MetadataReport">> >>

_STORE_VALUE_LIST_ACTIONS ==
  << <<"Alarm", "Alarm_SupportedReport">>,
     <<"Powerlevel", "Powerlevel_Report">>,
     <<"SensorAlarm", "SensorAlarm_SupportedReport">>,
     <<"ThermostatMode", "ThermostatMode_Report">>,
     <<"ManufacturerSpecific", "ManufacturerSpecific_DeviceSpecificReport">>,
     <<"ApplicationStatus", "ApplicationStatus_Busy">>,
     <<"MultiInstance", "MultiInstance_ChannelEndPointReport">>,
     <<"SwitchMultilevel", "SwitchMultilevel_StartLevelChange">>,
     <<"DoorLock", "DoorLock_ConfigurationReport">>,
     <<"ZwavePlusInfo", "ZwavePlusInfo_Report">>,
     <<"Version", "Version_Report">>,
     <<"ManufacturerSpecific", "ManufacturerSpecific_Report">>,
     <<"Meter", "Meter_SupportedReport">>,
     <<"ColorSwitch", "ColorSwitch_SupportedReport">>,
     <<"Firmware", "Firmware_MetadataReport">> >>

\* each row: <<key, the list stored for it>>
_STORE_SENSOR_ACTIONS ==
  << << <<"SwitchBinary", "SwitchBinary_Report">>, <<Nm("SwitchBinary"), Nm(UNIT_LEVEL)>> >>,
     << <<"Battery", "Battery_Report">>, <<Nm("Battery"), Nm(UNIT_LEVEL)>> >>,
     << <<"SensorBinary", "SensorBinary_Report">>, <<Nm("SwitchBinary"), Nm(UNIT_LEVEL)>> >>,
     << <<"SwitchToggleBinary", "SwitchToggleBinary_Report">>, <<Nm("SwitchToggle"), Nm(UNIT_LEVEL)>> >>,
     << <<"SwitchMultilevel", "SwitchMultilevel_Report">>, <<Nm("SwitchMultilevel"), Nm(UNIT_LEVEL)>> >>,
     << <<"Basic", "Basic_Report">>, <<Nm("Basic"), Nm(UNIT_LEVEL)>> >> >>

\* ACTIONS as the module's dict literal leaves it, each row <<key, list>>
ACTIONS_LITERAL ==
  << << <<"SceneActuatorConf", "SceneActuatorConf_Report">>, <<Nm("StoreScene")>> >>,
     << <<"Version", "Version_CommandClassReport">>, <<Nm("StoreCommandVersion")>> >>,
     << <<"SensorMultilevel", "SensorMultilevel_Report">>,
        <<Nm(ACTION_STORE_SENSOR), Nm(VALUE_TYPE_SENSOR_NORMAL)>> >>,
     << <<"Meter", "Meter_Report">>,
        <<Nm(ACTION_STORE_METER), Nm(VALUE_TYPE_METER_NORMAL)>> >>,
     << <<"Association", "Association_Report">>, <<Nm("StoreAssociation")>> >>,
     << <<"Configuration", "Configuration_Report">>, <<Nm("StoreParameter")>> >>,
     << <<"Alarm", "Alarm_Report">>,
        <<Nm(ACTION_STORE_EVENT), Nm(VALUE_TYPE_LIST), Nm("Alarm")>> >>,
     << <<"WakeUp", "WakeUp_Notification">>,
        <<Nm(ACTION_STORE_EVENT), Nm(VALUE_TYPE_CONST), Nm("WakeUp"), I(1)>> >>,
     << <<"Security", "Security_SchemeReport">>, <<Nm("SecurityScheme")>> >>,
     << <<"Security", "Security_NonceReport">>, <<Nm("SecurityNonceReceived")>> >>,
     << <<"Security", "Security_NonceGet">>, <<Nm("SecurityNonceRequested")>> >>,
     << <<"Security", "Security_SupportedReport">>, <<Nm("SecuritySetClass")>> >>,
     << <<"Security", "Security_MessageEncap">>, <<Nm("SecurityUnwrap")>> >>,
     << <<"Security", "Security_NetworkKeyVerify">>, <<Nm("SecurityKeyVerify")>> >> >>

_STATE_CHANGE ==
  << << <<"ManufacturerSpecific", "ManufacturerSpecific_Report">>,
        <<Nm(ACTION_CHANGE_STATE), Nm(NODE_STATE_INTERVIEWED)>> >> >>

Range(s) == {s[i] : i \in 1..Len(s)}
RowKeys(rows) == {rows[i][1] : i \in 1..Len(rows)}
RowOf(rows, k) == rows[CHOOSE i \in 1..Len(rows) : rows[i][1] = k][2]

\* d[k] = v on a dict d
Put(d, k, v) == (k :> v) @@ d

InitialActions == [k \in RowKeys(ACTIONS_LITERAL) |-> RowOf(ACTIONS_LITERAL, k)]

\* The body of each loop of PatchUpActions, for one item of its table.
PatchScalar(A, k) ==
  Put(A, k, <<Nm(ACTION_STORE_VALUE), Nm(VALUE_TYPE_SCALAR), GetValueName(k)>>)

PatchList(A, k) ==
  Put(A, k, <<Nm(ACTION_STORE_VALUE), Nm(VALUE_TYPE_LIST), GetValueName(k)>>)

PatchSensor(A, k) ==
  Put(A, k, <<Nm(ACTION_STORE_SENSOR), Nm(VALUE_TYPE_SENSOR_VALUE)>> \o RowOf(_STORE_SENSOR_ACTIONS, k))

\* ACTIONS[k] += v: a KeyError (the table left as it is) when k is no key
PatchStateChange(A, k) ==
  IF k \in DOMAIN A THEN Put(A, k, A[k] \o RowOf(_STATE_CHANGE, k)) ELSE A

RECURSIVE PatchAll(_, _, _, _)
PatchAll(A, keys, i, cat) ==
  IF i > Len(keys) THEN A
  ELSE PatchAll(CASE cat = "scalar" -> PatchScalar(A, keys[i])
                  [] cat = "list" -> PatchList(A, keys[i])
                  [] cat = "sensor" -> PatchSensor(A, keys[i])
                  [] OTHER -> PatchStateChange(A, keys[i]),
                keys, i + 1, cat)

KeysOfRows(rows) == [i \in 1..Len(rows) |-> rows[i][1]]

\* PatchUpActions() on the table A, the loops in the order of the source
PatchUpActions(A) ==
  PatchAll(PatchAll(PatchAll(PatchAll(A, _STORE_VALUE_SCALAR_ACTIONS, 1, "scalar"),
                             _STORE_VALUE_LIST_ACTIONS, 1, "list"),
                    KeysOfRows(_STORE_SENSOR_ACTIONS), 1, "sensor"),
           KeysOfRows(_STATE_CHANGE), 1, "state")

\* ------------------------------------------------------------ GetValue
\* Value(kind, unit, value, meter_time_delta=0, meter_prev=0.0)
Value(kind, unit, value, meter_time_delta, meter_prev) ==
  [kind |-> kind, unit |-> unit, value |-> value,
   meter_prev |-> meter_prev, meter_time_delta |-> meter_time_delta]

Value3(kind, unit, value) == Value(kind, unit, value, I(0), Fl(0, 1))

IsList(v) == DOMAIN v = {"list"}
IsInt(v) == DOMAIN v = {"int"}

\* What a GetValue call leaves: the Value returned or the exception raised,
\* and the list action as the pops left it.
GvRet(v, action) == [st |-> "ret", value |-> v, action |-> action]
GvRaise(e, action) == [st |-> "raise", value |-> [exc |-> e], action |-> action]

GetValueSensorNormal(value, a) ==
  IF Len(value.list) # 2 THEN GvRaise("AssertionError", a)
  ELSE LET kind == value.list[1]
           pair == value.list[2]
       IN IF ~IsInt(kind) THEN GvRaise("TypeError", a)
          ELSE IF kind.int >= Len(SENSOR_TYPES) THEN GvRaise("IndexError", a)
          ELSE IF ~IsList(pair) THEN GvRaise("TypeError", a)
          ELSE IF Len(pair.list) # 2 THEN GvRaise("AssertionError", a)
          ELSE LET info == SENSOR_TYPES[kind.int + 1]
                   scale == pair.list[1]
                   reading == pair.list[2]
               IN IF ~IsInt(scale) THEN GvRaise("TypeError", a)
                  ELSE IF scale.int >= Len(info[2]) THEN GvRaise("IndexError", a)
                  ELSE LET unit == info[2][scale.int + 1]
                       IN IF unit = NoUnit THEN GvRaise("AssertionError", a)
                          ELSE GvRet(Value3(Nm(info[1]), Nm(unit), reading), a)

GetValueMeterNormal(value, a) ==
  IF Len(value.list) # 1 THEN GvRaise("AssertionError", a)
  ELSE LET val == value.list[1]
       IN IF ~IsList(val) THEN GvRaise("TypeError", a)
          ELSE IF Len(val.list) # 5 THEN GvRaise("AssertionError", a)
          ELSE LET kind == val.list[1]
                   scale == val.list[2]
               IN IF ~IsInt(kind) \/ ~IsInt(scale) THEN GvRaise("TypeError", a)
                  ELSE IF kind.int >= Len(METER_TYPES) THEN GvRaise("IndexError", a)
                  ELSE LET info == METER_TYPES[kind.int + 1]
                       IN IF scale.int >= Len(info[2]) THEN GvRaise("IndexError", a)
                          ELSE LET unit == info[2][scale.int + 1]
                               IN IF unit = NoUnit THEN GvRaise("AssertionError", a)
                                  ELSE GvRet(Value(Nm(info[1]), Nm(unit), val.list[3],
                                                   val.list[4], val.list[5]), a)

\* GetValue(action, value), value a list; action is popped in place.
GetValue(action, value) ==
  IF action = <<>> THEN GvRaise("IndexError", action)
  ELSE LET t == action[1]
           a == Tail(action)
       IN CASE t = Nm(VALUE_TYPE_SCALAR) ->
                 IF Len(value.list) # 1 \/ IsList(value.list[1]) THEN GvRaise("AssertionError", a)
                 ELSE IF a = <<>> THEN GvRaise("IndexError", a)
                 ELSE GvRet(Value3(a[1], Nm(UNIT_NONE), value.list[1]), Tail(a))
            [] t = Nm(VALUE_TYPE_LIST) ->
                 IF a = <<>> THEN GvRaise("IndexError", a)
                 ELSE GvRet(Value3(a[1], Nm(UNIT_NONE), value), Tail(a))
            [] t = Nm(VALUE_TYPE_CONST) ->
                 IF a = <<>> THEN GvRaise("IndexError", a)
                 ELSE IF Tail(a) = <<>> THEN GvRaise("IndexError", Tail(a))
                 ELSE GvRet(Value3(a[1], Nm(UNIT_NONE), a[2]), Tail(Tail(a)))
            [] t = Nm(VALUE_TYPE_SENSOR_VALUE) ->
                 IF a = <<>> THEN GvRaise("IndexError", a)
                 ELSE IF Tail(a) = <<>> THEN GvRaise("IndexError", Tail(a))
                 ELSE IF Len(value.list) # 1 THEN GvRaise("AssertionError", Tail(Tail(a)))
                 ELSE GvRet(Value3(a[1], a[2], value.list[1]), Tail(Tail(a)))
            [] t = Nm(VALUE_TYPE_SENSOR_NORMAL) -> GetValueSensorNormal(value, a)
            [] t = Nm(VALUE_TYPE_MAP_LIST) ->
                 IF a = <<>> THEN GvRaise("IndexError", a)
                 ELSE IF value.list = <<>> \/ Len(Tail(a)) < 3 THEN GvRaise("IndexError", Tail(a))
                 ELSE GvRet(Value3(value.list[1], Tail(a)[3], L(Tail(value.list))), Tail(a))
            [] t = Nm(VALUE_TYPE_MAP_SCALAR) ->
                 IF Len(value.list) < 2 \/ Len(a) < 3 THEN GvRaise("IndexError", a)
                 ELSE GvRet(Value3(value.list[1], a[3], value.list[2]), a)
            [] t = Nm(VALUE_TYPE_METER_NORMAL) -> GetValueMeterNormal(value, a)
            [] OTHER -> GvRaise("AssertionError", a)

\* ------------------------------------------------------------ inputs
\* The bytes frame bodies are drawn from: a size byte of 0 and 1, a reading
\* header with scale 2 and size 1 (17), and a byte with its top bit set.
Bytes == {0, 1, 17, 255}
\* The bytes _GetSignedValue is called on.
SignBytes == {0, 1, 127, 128, 255}
\* Longer bodies: a nonce, a short nonce, a date, bit vectors, meter
\* reports with a time delta and a previous reading, gas meter reports,
\* a sensor report of two bytes, names.
ExtraBodies ==
  { <<1, 2, 3, 4, 5, 6, 7, 8>>, <<1, 2, 3, 4, 5, 6, 7>>, <<7, 224, 1, 2, 3, 4, 5>>,
    <<5>>, <<1, 5>>, <<3, 5>>, <<1, 1, 5, 0, 1>>, <<1, 1, 5, 0, 1, 1, 4>>,
    <<2, 17, 1>>, <<2, 1, 1>>, <<1, 34, 0, 100>>, <<0, 97>>, <<2, 0, 97>>, <<3, 97>> }

Bodies == UNION {[1..n -> Bytes] : n \in 0..MaxBody} \cup ExtraBodies

UnknownHeader == <<32, 127>>
Headers == {<<SchemaRows[r][3], SchemaRows[r][4]>> : r \in 1..Len(SchemaRows)}
             \cup {UnknownHeader}
Frames == {h \o b : h \in Headers, b \in Bodies} \cup {<<>>, <<32>>}

Key16 == [i \in 1..16 |-> i]
\* The arguments AssembleCommand is handed for a field of tag t.
ArgChoices(t) ==
  CASE t = "B" -> <<I(0), I(5), I(255)>>
    [] t = "Y" -> <<None, I(5)>>
    [] t = "N" -> <<Str(<<>>), Str(<<97>>)>>
    [] t = "K" -> <<Ints(Key16), Ints(SubSeq(Key16, 1, 15))>>
    [] t \in {"D", "L"} -> <<Ints(<<>>), Ints(<<1, 2>>)>>
    [] t = "C" -> <<Ints(<<2016, 1, 2, 3, 4, 5>>)>>
    [] t = "O" -> <<Ints(SubSeq(Key16, 1, 8)), Ints(SubSeq(Key16, 1, 7)), Ints(SubSeq(Key16, 1, 9))>>
    [] t = "V" -> <<Ints(<<1, 5>>), Ints(<<2, 300>>), Ints(<<4, 70000>>), Ints(<<1, -1>>),
                    Ints(<<3, 5>>), Ints(<<10, 1>>)>>
    [] t = "W" -> <<I(258)>>
    [] t = "R" -> <<I(5)>>
    [] t = "X" -> <<L(<<I(0), Fl(5, 1)>>)>>
    [] t = "M" -> <<L(<<I(1), I(0), Fl(5, 1), None, None>>)>>
    [] t \in {"T", "U"} -> <<Bits({0, 2})>>
    [] t = "F" -> <<L(<<I(0), Bs(<<97>>)>>)>>
    [] OTHER -> <<Str(<<97>>)>>

\* -------------------------------------------------------------- state
VARIABLES
  Actions,     \* the module's dict ACTIONS (a reserved word here): key -> list
  done,        \* how many items of each table PatchUpActions has gone through
  frame,       \* the buffer last handed to ParseCommand
  out,         \* what that ParseCommand call left
  action,      \* the caller's own descriptor list handed to GetValue
  ref,         \* which list GetValue was last handed: "none", "local", "table"
  hist,        \* what the GetValue calls on that list and frame left, in order
  tableCalls,  \* GetValue calls handed a list of ACTIONS itself
  call         \* the last call of another function, its arguments and result

vars == <<Actions, done, frame, out, action, ref, hist, tableCalls, call>>

NoOut == [st |-> "none", value |-> None, trace |-> <<>>, calls |-> 0]
NoCall == [op |-> "none"]

Built == PatchUpActions(InitialActions)

AllDone == [scalar |-> Len(_STORE_VALUE_SCALAR_ACTIONS), list |-> Len(_STORE_VALUE_LIST_ACTIONS),
            sensor |-> Len(_STORE_SENSOR_ACTIONS), state |-> Len(_STATE_CHANGE)]

NoCallHeld ==
  /\ frame = <<>>
  /\ out = NoOut
  /\ action = <<>>
  /\ ref = "none"
  /\ hist = <<>>
  /\ tableCalls = 0
  /\ call = NoCall

\* The state once the module is imported: PatchUpActions() has run.
Init ==
  /\ Actions = Built
  /\ done = AllDone
  /\ NoCallHeld

\* No call is under way and no result is held.
Idle == call = NoCall /\ done = AllDone

\* out = ParseCommand(m)
DoParseCommand ==
  /\ Idle
  /\ \E m \in Frames :
    /\ frame' = m
    /\ out' = ParseCommand(m)
    /\ action' = <<>>
    /\ ref' = "none"
    /\ hist' = <<>>
    /\ call' = [op |-> "ParseCommand"]
    /\ UNCHANGED <<Actions, done, tableCalls>>

\* The frame decoded to a field list and ACTIONS has its key.
Resolvable ==
  /\ out.st = "ret"
  /\ IsList(out.value)
  /\ Len(frame) >= 2
  /\ KeyOf(frame[1], frame[2]) \in DOMAIN Actions

FrameKey == KeyOf(frame[1], frame[2])

\* The caller looks the frame's key up in ACTIONS and takes a list of its
\* own: the whole entry or the entry without its leading store action.
TakeDescriptor ==
  /\ Resolvable
  /\ \E n \in {0, 1} :
       /\ n <= Len(Actions[FrameKey])
       /\ action' = SubSeq(Actions[FrameKey], n + 1, Len(Actions[FrameKey]))
  /\ ref' = "local"
  /\ hist' = <<>>
  /\ call' = [op |-> "TakeDescriptor"]
  /\ UNCHANGED <<Actions, done, frame, out, tableCalls>>

\* How many GetValue calls in a row are followed on one list.
MaxCalls == 2

\* GetValue(action, out) on the caller's own list
DoGetValue ==
  /\ ref = "local"
  /\ Len(hist) < MaxCalls
  /\ LET Left(r) ==
           /\ action' = r.action
           /\ hist' = Append(hist, [st |-> r.st, value |-> r.value, before |-> action])
     IN Left(GetValue(action, out.value))
  /\ call' = [op |-> "GetValue"]
  /\ UNCHANGED <<Actions, done, frame, out, ref, tableCalls>>

\* GetValue(ACTIONS[key], out): the list handed over is the table's own
DoGetValueTable ==
  /\ Resolvable
  /\ ref \in {"none", "table"}
  /\ Len(hist) < MaxCalls
  /\ tableCalls < MaxTableCalls
  /\ LET Left(r) ==
           /\ Actions' = Put(Actions, FrameKey, r.action)
           /\ hist' = Append(hist, [st |-> r.st, value |-> r.value, before |-> Actions[FrameKey]])
     IN Left(GetValue(Actions[FrameKey], out.value))
  /\ ref' = "table"
  /\ action' = <<>>
  /\ tableCalls' = tableCalls + 1
  /\ call' = [op |-> "GetValue"]
  /\ UNCHANGED <<done, frame, out>>

Forget ==
  /\ frame' = <<>>
  /\ out' = NoOut
  /\ action' = <<>>
  /\ ref' = "none"
  /\ hist' = <<>>

\* The argument lists AssembleCommand is handed for a schema: one argument
\* short, one per field, one too many.
ArgLists(table) ==
  LET n == Len(table)
      full == {pick \in [1..n -> 1..6] : \A i \in 1..n : pick[i] <= Len(ArgChoices(table[i]))}
      args(pick) == [i \in 1..n |-> ArgChoices(table[i])[pick[i]]]
  IN UNION {{<<"full", pick>>, <<"long", pick>>} \cup
            (IF n > 0 THEN {<<"short", pick>>} ELSE {}) : pick \in full}

ArgsOf(table, choice) ==
  LET n == Len(table)
      full == [i \in 1..n |-> ArgChoices(table[i])[choice[2][i]]]
  IN CASE choice[1] = "full" -> full
       [] choice[1] = "long" -> Append(full, I(6))
       [] OTHER -> SubSeq(full, 1, n - 1)

\* AssembleCommand([cls, cmd] + args)
DoAssembleCommand ==
  /\ Idle
  /\ \E r \in 1..Len(SchemaRows) :
    \E choice \in ArgLists(SchemaRows[r][5]) :
      /\ call' = [op |-> "AssembleCommand", cls |-> SchemaRows[r][3],
                  cmd |-> SchemaRows[r][4], table |-> SchemaRows[r][5],
                  args |-> ArgsOf(SchemaRows[r][5], choice),
                  res |-> AssembleCommand(SchemaRows[r][3], SchemaRows[r][4],
                                          ArgsOf(SchemaRows[r][5], choice))]
      /\ Forget
      /\ UNCHANGED <<Actions, done, tableCalls>>

\* _PARSE_ACTIONS[t](m, index), the cursor anywhere in the buffer or at its end
DoDecoder ==
  /\ Idle
  /\ \E t \in ParseTags, m \in Bodies :
    \E index \in 0..Len(m) :
      /\ call' = [op |-> "decoder", tag |-> t, m |-> m, index |-> index,
                  res |-> _PARSE_ACTIONS(t, m, index)]
      /\ Forget
      /\ UNCHANGED <<Actions, done, tableCalls>>

\* _GetSignedValue(m, 0, size) on a buffer of size bytes
DoGetSignedValue ==
  /\ Idle
  /\ \E size \in 1..4 :
    \E m \in [1..size -> SignBytes] :
      /\ call' = [op |-> "_GetSignedValue", m |-> m, index |-> 0, size |-> size,
                  res |-> _GetSignedValue(m, 0, size)]
      /\ Forget
      /\ UNCHANGED <<Actions, done, tableCalls>>

\* The byte spans and base offsets _ExtractBitVector is called on.
Spans == UNION {[1..n -> Bytes] : n \in 0..MaxSpan} \cup {<<5>>}

Offsets == {0, 1, 8}

DoExtractBitVector ==
  /\ Idle
  /\ \E data \in Spans, offset \in Offsets :
      /\ call' = [op |-> "_ExtractBitVector", data |-> data, offset |-> offset,
                  res |-> _ExtractBitVector(data, offset)]
      /\ Forget
      /\ UNCHANGED <<Actions, done, tableCalls>>

\* The caller lets go of the frame, the descriptor and the result it holds.
Return ==
  /\ call # NoCall
  /\ done = AllDone
  /\ Forget
  /\ call' = NoCall
  /\ UNCHANGED <<Actions, done, tableCalls>>

Next ==
  \/ DoParseCommand
  \/ TakeDescriptor
  \/ DoGetValue
  \/ DoGetValueTable
  \/ DoAssembleCommand
  \/ DoDecoder
  \/ DoGetSignedValue
  \/ DoExtractBitVector
  \/ Return

\* Every function of the module, called in any order.
Spec == Init /\ [][Next]_vars

NextSigned == DoGetSignedValue \/ Return
\* _GetSignedValue alone.
SpecSigned == Init /\ [][NextSigned]_vars

NextDecoder == DoDecoder \/ Return
\* The field decoders alone.
SpecDecoder == Init /\ [][NextDecoder]_vars

NextBits == DoExtractBitVector \/ DoDecoder \/ Return
\* _ExtractBitVector and the decoders that call it.
SpecBits == Init /\ [][NextBits]_vars

NextParse == DoParseCommand \/ Return
\* ParseCommand alone.
SpecParse == Init /\ [][NextParse]_vars

NextAssemble == DoAssembleCommand \/ Return
\* AssembleCommand alone.
SpecAssemble == Init /\ [][NextAssemble]_vars

NextValue == DoParseCommand \/ TakeDescriptor \/ DoGetValue \/ Return
\* A frame decoded and resolved with a descriptor list of the caller's own.
SpecValue == Init /\ [][NextValue]_vars

\* ------------------------------------------------ the table's build
\* PatchUpActions() step by step: one item of one loop at a time.  Each
\* loop goes through its table in the table's order; the three store loops
\* are taken in any order and interleaving, which covers every order of the
\* category tables, and the state-change loop comes after them as in the
\* source.  hist lists the loops in the order they finished.
NoneDone == [scalar |-> 0, list |-> 0, sensor |-> 0, state |-> 0]

InitBuild ==
  /\ Actions = InitialActions
  /\ done = NoneDone
  /\ NoCallHeld

Finished(cat) == IF done'[cat] = AllDone[cat] THEN Append(hist, cat) ELSE hist

StoreScalar ==
  /\ done.state = 0
  /\ done.scalar < AllDone.scalar
  /\ Actions' = PatchScalar(Actions, _STORE_VALUE_SCALAR_ACTIONS[done.scalar + 1])
  /\ done' = [done EXCEPT !.scalar = @ + 1]
  /\ hist' = Finished("scalar")
  /\ UNCHANGED <<frame, out, action, ref, tableCalls, call>>

StoreList ==
  /\ done.state = 0
  /\ done.list < AllDone.list
  /\ Actions' = PatchList(Actions, _STORE_VALUE_LIST_ACTIONS[done.list + 1])
  /\ done' = [done EXCEPT !.list = @ + 1]
  /\ hist' = Finished("list")
  /\ UNCHANGED <<frame, out, action, ref, tableCalls, call>>

StoreSensor ==
  /\ done.state = 0
  /\ done.sensor < AllDone.sensor
  /\ Actions' = PatchSensor(Actions, _STORE_SENSOR_ACTIONS[done.sensor + 1][1])
  /\ done' = [done EXCEPT !.sensor = @ + 1]
  /\ hist' = Finished("sensor")
  /\ UNCHANGED <<frame, out, action, ref, tableCalls, call>>

\* ACTIONS[k] += v; a key ACTIONS has not ends the build with a KeyError
ChangeState ==
  /\ done.scalar = AllDone.scalar
  /\ done.list = AllDone.list
  /\ done.sensor = AllDone.sensor
  /\ done.state < AllDone.state
  /\ call = NoCall
  /\ Actions' = PatchStateChange(Actions, _STATE_CHANGE[done.state + 1][1])
  /\ done' = [done EXCEPT !.state = @ + 1]
  /\ hist' = Finished("state")
  /\ call' = IF _STATE_CHANGE[done.state + 1][1] \in DOMAIN Actions THEN NoCall
             ELSE [op |-> "PatchUpActions", exc |-> "KeyError"]
  /\ UNCHANGED <<frame, out, action, ref, tableCalls>>

NextBuild == StoreScalar \/ StoreList \/ StoreSensor \/ ChangeState

SpecBuild == InitBuild /\ [][NextBuild]_vars

\* ------------------------------------------- what the claims speak of
IsByte(v) == IsInt(v) /\ v.int >= 0 /\ v.int <= 255
IsBytes(v) == IsList(v) /\ \A i \in 1..Len(v.list) : IsByte(v.list[i])

\* The tags AssembleCommand has a branch for that appends bytes.
EncoderTags == {"B", "Y", "N", "K", "D", "L", "C", "O", "V"}

\* An argument of the shape the field tag t stands for.
ShapeOk(t, v) ==
  CASE t = "B" -> IsByte(v)
    [] t = "Y" -> IsNone(v) \/ IsByte(v)
    [] t \in {"N", "A", "S"} -> DOMAIN v = {"str"}
    [] t = "K" -> IsBytes(v) /\ Len(v.list) = 16
    [] t \in {"D", "L"} -> IsBytes(v)
    [] t = "C" -> IsList(v) /\ Len(v.list) = 6
    [] t = "O" -> IsBytes(v) /\ Len(v.list) = 8
    [] t = "V" -> /\ IsList(v)
                  /\ Len(v.list) = 2
                  /\ v.list[1].int \in {1, 2, 4}
                  /\ v.list[2].int >= 0
                  /\ (v.list[1].int = 4 \/ v.list[2].int < Pow(256, v.list[1].int))
    [] t \in {"W", "R"} -> IsInt(v) /\ v.int >= 0
    [] t \in {"X", "F"} -> IsList(v) /\ Len(v.list) = 2
    [] t = "M" -> IsList(v) /\ Len(v.list) = 5
    [] t \in {"T", "U"} -> DOMAIN v = {"bits"}
    [] OTHER -> FALSE

\* The last call was AssembleCommand with one argument per schema entry,
\* each of its tag's shape.
WellFormedCall ==
  /\ call.op = "AssembleCommand"
  /\ Len(call.args) = Len(call.table)
  /\ \A i \in 1..Len(call.table) : ShapeOk(call.table[i], call.args[i])

\* C1: round trip.  For every schema of the table and every argument list
\* of the schema's length whose arguments have their tags' shapes,
\* AssembleCommand returns a frame and ParseCommand on that frame returns
\* exactly the arguments.
RoundTrip ==
  WellFormedCall =>
    /\ call.res.st = "ret"
    /\ ParseCommand(call.res.value.data).st = "ret"
    /\ ParseCommand(call.res.value.data).value = L(call.args)

\* A well-formed call of a schema with a field has returned a frame.
RoundTripTried ==
  /\ WellFormedCall
  /\ call.table # <<>>
  /\ call.res.st = "ret"

\* C2: idempotent resolution.  GetValue called twice in a row with the same
\* descriptor and the same field list, the first call returning a Value:
\* the second call returns an equal Value.
IdempotentResolution ==
  (Len(hist) = 2 /\ hist[1].st = "ret") =>
    (hist[2].st = "ret" /\ hist[2].value = hist[1].value)

\* GetValue has been called twice on one descriptor and one field list, and
\* the first call returned a Value.
ResolvedTwice == ref = "local" /\ Len(hist) = 2 /\ hist[1].st = "ret"

\* C3: build once, then freeze.  After PatchUpActions has run, whatever
\* calls of ParseCommand, AssembleCommand and GetValue have been made, every
\* entry of ACTIONS is what it was right after the build.
TablesFrozen == done = AllDone => Actions = Built

\* GetValue has been handed a descriptor list of ACTIONS.
TableListHanded == ref = "table" /\ hist # <<>>

Complement(m) == [i \in 1..Len(m) |-> 255 - m[i]]

\* The float the bytes m stand for as a two's complement number.
SignedExpected(m) ==
  IF m[1] < 128 THEN FlD(FALSE, m, 1)
  ELSE FlD(TRUE, NatInc(Norm(Complement(m))), 1)

\* C4: signed decode.  For every size in 1..4 and every byte sequence of
\* that size, _GetSignedValue returns the big-endian magnitude when the top
\* bit of the first byte is clear and minus (the complement of the magnitude
\* within size bytes, plus 1) when it is set.
SignedMagnitude ==
  call.op = "_GetSignedValue" => call.res = Ret(0, SignedExpected(call.m))

\* _GetSignedValue has been called on bytes whose top bit is set.
NegativeDecoded == call.op = "_GetSignedValue" /\ call.m[1] >= 128

\* The bytes the field of tag t at index needs: its declared width, or the
\* width derived from the bytes of m that say it.
Needed(t, m, index) ==
  LET rest == Len(m) - index
  IN CASE t = "B" -> 1
       [] t = "W" -> 2
       [] t = "C" -> 7
       [] t = "O" -> 8
       [] t = "N" -> 1
       [] t = "A" -> IF rest = 0 THEN 1 ELSE 1 + At(m, index)
       [] t = "F" -> IF rest = 0 THEN 1 ELSE 1 + (At(m, index) % 32)
       [] t = "V" -> IF rest = 0 THEN 1 ELSE 1 + (At(m, index) % 8)
       [] t = "T" -> IF rest = 0 THEN 1 ELSE 1 + At(m, index)
       [] t = "X" -> IF rest = 0 THEN 1 ELSE 1 + (At(m, index) % 8)
       [] t = "M" -> IF rest < 2 THEN 1 ELSE 2 + (At(m, index + 1) % 8)
       [] OTHER -> 0

\* The last call was a field decoder with fewer bytes left than it needs.
TruncatedCall ==
  /\ call.op = "decoder"
  /\ Len(call.m) - call.index < Needed(call.tag, call.m, call.index)

\* C5: truncation.  A field decoder called where fewer bytes remain than
\* the field's declared or derived width returns the None value: it does
\* not raise and does not return a value as success.
Truncation ==
  TruncatedCall => (call.res.st = "ret" /\ IsNone(call.res.value))

\* A decoder called on a truncated field has reported it with None.
TruncationReported ==
  TruncatedCall /\ call.res.st = "ret" /\ IsNone(call.res.value)

FrameTable(m) == SUBCMD_TO_PARSE_TABLE(At(m, 0) * 256 + At(m, 1))
Registered(m) == Len(m) >= 2 /\ ~IsNone(FrameTable(m))

\* C6: all or nothing.  For a frame with a registered schema ParseCommand
\* returns a list of one value per schema entry, or returns None with no
\* field values; the walk stops at the first entry that fails.
AllOrNothing ==
  (out.st # "none" /\ Registered(frame)) =>
    /\ out.st = "ret"
    /\ \/ /\ IsList(out.value)
          /\ Len(out.value.list) = Len(FrameTable(frame).list)
          /\ out.calls = Len(FrameTable(frame).list)
       \/ /\ IsNone(out.value)
          /\ out.calls >= 1
          /\ Len(out.trace) = out.calls

\* ParseCommand has stopped at a failing entry after decoding one.
WalkStopped ==
  /\ out.st = "ret"
  /\ Registered(frame)
  /\ IsNone(out.value)
  /\ out.calls = 2
  /\ Len(FrameTable(frame).list) > 2

\* The frame parsed has a header the schema table has not.
UnknownFrame == out.st # "none" /\ Len(frame) >= 2 /\ IsNone(FrameTable(frame))

\* C7: unknown command.  For a frame whose header is absent from the schema
\* table ParseCommand calls no field decoder, and what it returns differs
\* from what it returns for a frame of a zero-field schema and for a frame
\* with a malformed field.
UnknownCommand ==
  UnknownFrame =>
    /\ out.calls = 0
    /\ \A g \in Frames :
         (Registered(g) /\ (FrameTable(g).list = <<>> \/ IsNone(ParseCommand(g).value)))
           => ParseCommand(g).value # out.value

\* A frame with an unknown header has been parsed without a decoder call.
UnknownParsed == UnknownFrame /\ out.calls = 0

\* The list GetValue call n left behind.
LeftBy(n) == IF n < Len(hist) THEN hist[n + 1].before ELSE action

IsSensorReport(v) ==
  /\ IsList(v)
  /\ Len(v.list) = 2
  /\ IsInt(v.list[1])
  /\ v.list[1].int < Len(SENSOR_TYPES)
  /\ IsList(v.list[2])
  /\ Len(v.list[2].list) = 2

IsMeterReport(v) ==
  /\ IsList(v)
  /\ Len(v.list) = 1
  /\ IsList(v.list[1])
  /\ Len(v.list[1].list) = 5
  /\ IsInt(v.list[1].list[1])
  /\ v.list[1].list[1].int < Len(METER_TYPES)
  /\ IsInt(v.list[1].list[2])
  /\ v.list[1].list[2].int < 8

SensorSlot(v) == SENSOR_TYPES[v.list[1].int + 1][2][v.list[2].list[1].int + 1]
MeterSlot(v) == METER_TYPES[v.list[1].list[1].int + 1][2][v.list[1].list[2].int + 1]

\* GetValue call n was handed a descriptor starting with value type t.
CallOn(n, t) == hist[n].before # <<>> /\ hist[n].before[1] = Nm(t)

\* Call n found the slot: the Value has the row's label and the slot's unit.
\* It found None: an error, no Value, and the descriptor left as it was.
Resolves(n, label, slot) ==
  IF slot # NoUnit
  THEN /\ hist[n].st = "ret"
       /\ hist[n].value.kind = Nm(label)
       /\ hist[n].value.unit = Nm(slot)
  ELSE /\ hist[n].st = "raise"
       /\ LeftBy(n) = hist[n].before

ContractBroken ==
  /\ call.op = "AssembleCommand"
  /\ \/ Len(call.args) # Len(call.table)
     \/ \E i \in 1..Len(call.table) :
          call.table[i] \notin EncoderTags \/ ~ShapeOk(call.table[i], call.args[i])

\* C9: encode contract violations never yield output.  AssembleCommand
\* called with a number of arguments that differs from the schema's length,
\* with a tag that has no encoder or with an argument not of its tag's shape
\* fails; every byte sequence it returns starts with the two header bytes.
EncodeContract ==
  /\ ContractBroken => call.res.st = "raise"
  /\ (call.op = "AssembleCommand" /\ call.res.st = "ret") =>
       (Len(call.res.value.data) >= 2
          /\ SubSeq(call.res.value.data, 1, 2) = <<call.cls, call.cmd>>)

\* AssembleCommand has refused a call that breaks the contract.
ContractRefused == ContractBroken /\ call.res.st = "raise"

RowKeySets ==
  <<RowKeys(ACTIONS_LITERAL), Range(_STORE_VALUE_SCALAR_ACTIONS),
    Range(_STORE_VALUE_LIST_ACTIONS), RowKeys(_STORE_SENSOR_ACTIONS)>>

\* What the state-change loop has added to the entry of key k so far.
Augmented(k) ==
  IF \E j \in 1..done.state : _STATE_CHANGE[j][1] = k
  THEN RowOf(_STATE_CHANGE, k)
  ELSE <<>>

\* C10: the build of the action table.  The key sets of the initial
\* entries and of the scalar-store, list-store and sensor-store tables are
\* pairwise disjoint; at every step each entry registered so far is the one
\* its own category stored, with its state change once that is added; the
\* state-change loop meets no missing key; whatever the order of the store
\* loops, the table built is the same and has one entry per key.
ActionTableBuild ==
  /\ \A a, b \in 1..Len(RowKeySets) : a # b => RowKeySets[a] \cap RowKeySets[b] = {}
  /\ \A k \in DOMAIN InitialActions :
       k \in DOMAIN Actions /\ Actions[k] = InitialActions[k] \o Augmented(k)
  /\ \A i \in 1..done.scalar :
       LET k == _STORE_VALUE_SCALAR_ACTIONS[i]
       IN Actions[k] = <<Nm(ACTION_STORE_VALUE), Nm(VALUE_TYPE_SCALAR), GetValueName(k)>>
                         \o Augmented(k)
  /\ \A i \in 1..done.list :
       LET k == _STORE_VALUE_LIST_ACTIONS[i]
       IN Actions[k] = <<Nm(ACTION_STORE_VALUE), Nm(VALUE_TYPE_LIST), GetValueName(k)>>
                         \o Augmented(k)
  /\ \A i \in 1..done.sensor :
       LET k == _STORE_SENSOR_ACTIONS[i][1]
       IN Actions[k] = <<Nm(ACTION_STORE_SENSOR), Nm(VALUE_TYPE_SENSOR_VALUE)>>
                         \o _STORE_SENSOR_ACTIONS[i][2] \o Augmented(k)
  /\ call = NoCall
  /\ done = AllDone =>
       /\ Actions = Built
       /\ Cardinality(DOMAIN Actions) =
            Len(ACTIONS_LITERAL) + AllDone.scalar + AllDone.list + AllDone.sensor

\* The build has ended with the store loops finished in the order sensor,
\* list, scalar, and the state change added to its entry.
BuiltInAnotherOrder ==
  /\ done = AllDone
  /\ hist = <<"sensor", "list", "scalar", "state">>
  /\ Actions[<<"ManufacturerSpecific", "ManufacturerSpecific_Report">>] =
       <<Nm(ACTION_STORE_VALUE), Nm(VALUE_TYPE_LIST),
         GetValueName(<<"ManufacturerSpecific", "ManufacturerSpecific_Report">>),
         Nm(ACTION_CHANGE_STATE), Nm(NODE_STATE_INTERVIEWED)>>

\* The last call was the meter decoder and it returned a value.
MeterDecoded ==
  /\ call.op = "decoder"
  /\ call.tag = "M"
  /\ call.res.st = "ret"
  /\ ~IsNone(call.res.value)

\* Where the first reading of the meter report in m ends.
AfterReading(m, index) == index + 2 + (At(m, index + 1) % 8)

\* Where its time delta ends, or the same place when it has none.
AfterTimeDelta(m, index) ==
  IF AfterReading(m, index) + 1 < Len(m)
  THEN AfterReading(m, index) + 2
  ELSE AfterReading(m, index)

IsReading(v) == {"num", "den"} \subseteq DOMAIN v

\* C11: meter extraction.  Every successful meter decode returns the five
\* elements [meter_type, unit_code, reading, time_delta, previous_reading]:
\* meter_type is bits 0-4 of the first byte, time_delta is the two byte
\* big-endian value when at least two bytes remain after the reading and
\* None otherwise, previous_reading is a second reading when bytes remain
\* after that and None otherwise.
MeterExtraction ==
  MeterDecoded =>
    /\ IsList(call.res.value)
    /\ Len(call.res.value.list) = 5
    /\ call.res.value.list[1] = I(At(call.m, call.index) % 32)
    /\ (Len(call.m) > call.index + 1) =>
         /\ IsInt(call.res.value.list[2])
         /\ IsReading(call.res.value.list[3])
         /\ call.res.value.list[4] =
              IF AfterReading(call.m, call.index) + 1 < Len(call.m)
              THEN I(At(call.m, AfterReading(call.m, call.index)) * 256
                     + At(call.m, AfterReading(call.m, call.index) + 1))
              ELSE None
         /\ IF AfterTimeDelta(call.m, call.index) < Len(call.m)
            THEN IsReading(call.res.value.list[5])
            ELSE IsNone(call.res.value.list[5])

\* A meter report with a reading, a time delta and a previous reading has
\* been decoded.
MeterFullyDecoded ==
  /\ MeterDecoded
  /\ Len(call.res.value.list) = 5
  /\ IsInt(call.res.value.list[4])
  /\ IsReading(call.res.value.list[5])

\* Bit j (0 the least significant) of byte b is set.
BitSet(b, j) == (b \div Pow(2, j)) % 2 = 1

\* n is the number of a set bit of the span data numbered from offset.
NumbersSetBit(data, offset, n) ==
  /\ n >= offset
  /\ (n - offset) \div 8 < Len(data)
  /\ BitSet(data[((n - offset) \div 8) + 1], (n - offset) % 8)

\* S holds the numbers of the set bits of data numbered from offset, and
\* nothing else.
DecodesSpan(S, data, offset) ==
  /\ S \subseteq offset..(offset + 8 * Len(data) - 1)
  /\ \A n \in 0..(offset + 8 * Len(data) + 8) :
       n \in S <=> NumbersSetBit(data, offset, n)

BitDecoded(t) ==
  /\ call.op = "decoder"
  /\ call.tag = t
  /\ call.res.st = "ret"

\* C12: bit vector.  For every byte span and base offset the decoded set
\* holds 8*i + j + offset exactly when bit j of byte i of the span is set,
\* and nothing else; the byte 0x05 at offset 0 decodes to {0, 2}.  The
\* length-prefixed form takes exactly the number of bytes its prefix byte
\* gives, the rest form takes all the remaining bytes.
BitVector ==
  /\ call.op = "_ExtractBitVector" =>
       /\ DecodesSpan(call.res.bits, call.data, call.offset)
       /\ (call.data = <<5>> /\ call.offset = 0) => call.res = Bits({0, 2})
  /\ BitDecoded("T") =>
       /\ call.index + 1 + At(call.m, call.index) <= Len(call.m)
       /\ call.res.index = call.index + 1 + At(call.m, call.index)
       /\ DecodesSpan(call.res.value.bits,
                      SubSeq(call.m, call.index + 2, call.res.index), 0)
  /\ BitDecoded("U") =>
       /\ call.res.index = Len(call.m)
       /\ DecodesSpan(call.res.value.bits,
                      SubSeq(call.m, call.index + 1, Len(call.m)), 0)

\* A length-prefixed bit vector with a set bit in its second byte has been
\* decoded from the middle of a buffer.
BitVectorDecoded ==
  /\ BitDecoded("T")
  /\ call.index > 0
  /\ call.index + 1 + At(call.m, call.index) <= Len(call.m)
  /\ \E n \in call.res.value.bits : n >= 8

\* ParseCommand has walked the schema of a registered frame.
Walked ==
  /\ out.st # "none"
  /\ Registered(frame)

\* C13: cursor progress in ParseCommand.  The cursor starts at 2; after each
\* decoded schema entry the new cursor is the old one plus the bytes that
\* entry's decoder consumed, so the cursor never decreases and never exceeds
\* len(m), and no byte of the body is decoded by two schema entries.
CursorProgress ==
  Walked =>
    /\ out.trace[1] = 2
    /\ \A k \in 1..(Len(out.trace) - 1) :
         /\ out.trace[k + 1] >= out.trace[k]
         /\ out.trace[k + 1] <= Len(frame)

\* A walk has decoded two schema entries, each moving the cursor forward.
CursorAdvancedTwice ==
  /\ Walked
  /\ out.st = "ret"
  /\ ~IsNone(out.value)
  /\ Len(out.trace) >= 3
  /\ \A k \in 1..(Len(out.trace) - 1) : out.trace[k + 1] > out.trace[k]

====
